---- MODULE Spec2Model ----
(***************************************************************************)
(* hello.py: a module that defines main() and calls it under the           *)
(* `if __name__ == "__main__"` guard.  main() prints the greeting inside a *)
(* try block whose `except Exception as e` handler prints a diagnostic.    *)
(*                                                                         *)
(* The model runs two invocations of the module side by side on the same   *)
(* platform (the same behaviour of the standard-output stream), each with  *)
(* its own __name__, command line and standard streams.  Text is a         *)
(* sequence of tokens; the line terminator is the token "\n".              *)
(***************************************************************************)
EXTENDS Integers, Sequences, FiniteSets, TLC

\* ------------------------------------------------------------------ bounds
\* longest command line (extraneous arguments) of an invocation
MaxArgs == 1
\* calls of main() an importing program makes on the loaded module
MaxCalls == 2
\* print attempts whose outcome the platform may choose; later ones succeed
MaxFaults == 2

\* ------------------------------------------------------------- the inputs
Invocations == {"p", "q"}
ArgWords == {"x"}
ArgLists == UNION {[1..n -> ArgWords] : n \in 0..MaxArgs}
\* __name__ is "__main__" when the file is executed, the module name when imported
ModuleNames == {"__main__", "hello"}

\* exceptions: the type and str(e)
NoExc == [type |-> "None", text |-> "None"]
ClosedFile == [type |-> "ValueError", text |-> "I/O operation on closed file."]
NoSpace == [type |-> "OSError", text |-> "[Errno 28] No space left on device"]

\* print(x) writes str(x) and then the terminator: an outcome says how many of
\* the two writes took effect and the exception raised (NoExc: none).
OutOk == [written |-> 2, exc |-> NoExc]
Outcomes(m) ==
    IF m = "buffered"
    THEN {OutOk, [written |-> 0, exc |-> ClosedFile]}
    ELSE {OutOk, [written |-> 0, exc |-> ClosedFile],
          [written |-> 0, exc |-> NoSpace], [written |-> 1, exc |-> NoSpace]}
FlushFaults(m) == IF m = "buffered" THEN {NoExc, NoSpace} ELSE {NoExc}

\* exit statuses of the interpreter
ExitOk == 0
ExitUncaught == 1
ExitFlushFailed == 120

VARIABLES
    mode,        \* standard output: "buffered" (file, pipe) or "direct" (tty, -u)
    faults,      \* outcome of the k-th print attempt of an invocation
    flushFault,  \* exception of the flush of standard output at interpreter exit
    name,        \* __name__ of each invocation
    argv,        \* extraneous command-line arguments of each invocation
    pc,          \* position of each invocation
    caller,      \* who called main(): "none", "guard" or "importer"
    calls,       \* number of times main() was entered
    e,           \* the exception bound by `except Exception as e`
    raised,      \* the exception that left main(), NoExc if none
    buf,         \* text held in the buffer of standard output
    out,         \* text delivered on standard output
    err,         \* text delivered on standard error
    status,      \* exit status, -1 while the process runs
    log,         \* the attempted writes: [call, op, ok]
    touched,     \* resources other than the standard streams that were touched
    modns        \* names bound at module level

vars == <<mode, faults, flushFault, name, argv, pc, caller, calls, e, raised,
          buf, out, err, status, log, touched, modns>>

env == <<mode, faults, flushFault, name, argv>>

\* ------------------------------------------------------------ the program
\* variants of the definitions below, each a slip the code could have made
GreetingNoComma(i) == <<"Hello World!">>
GreetingNamed(i) == IF argv[i] = <<>> THEN <<"Hello, World!">> ELSE <<"Hello, ", argv[i][1]>>
PrintTargetStderr(op) == IF op = "diagnostic" THEN "stderr" ELSE "stdout"
EffectsLogFile(op) == IF op = "diagnostic" THEN {"file"} ELSE {}
GuardAlways(i) == TRUE
AfterTryFinally(o) == "except"
AfterTryRetry(o) == IF o.exc = NoExc THEN "return" ELSE "try"
ExitStatusError(x, flushFailed) == IF flushFailed THEN 120 ELSE 1

\* line 14: the literal printed by the try block
GreetingText(i) == <<"Hello, World!">>

DiagPrefix == "An unexpected error occurred while printing: "

\* line 19: f"An unexpected error occurred while printing: {e}"
DiagnosticText(x) == <<DiagPrefix, x.text>>

\* print(text): the two writes, str(text) and end="\n"
PrintPieces(text) == <<text, <<"\n">>>>

\* what k of the two writes of print(text) put on the stream
Emitted(text, k) ==
    IF k = 0 THEN <<>>
    ELSE IF k = 1 THEN PrintPieces(text)[1]
    ELSE PrintPieces(text)[1] \o PrintPieces(text)[2]

\* print() is called without file=: both prints go to sys.stdout
PrintTarget(op) == "stdout"

\* resources other than the standard streams a step of main() touches
Effects(op) == {}

\* line 21: the guard
GuardHolds(i) == name[i] = "__main__"

\* lines 12-15: after the try body, return or enter the handler
AfterTry(o) == IF o.exc = NoExc THEN "return" ELSE "except"

\* lines 15-19: after the handler, return or let the new exception leave main()
AfterExcept(o) == IF o.exc = NoExc THEN "return" ELSE "raise"

\* the outcome of the next print attempt of invocation i
NextOutcome(i) ==
    IF Len(log[i]) < MaxFaults THEN faults[Len(log[i]) + 1] ELSE OutOk

\* the interpreter's exit status: 120 when the final flush fails, 1 after an
\* uncaught exception
ExitStatus(x, flushFailed) ==
    IF flushFailed THEN ExitFlushFailed
    ELSE IF x # NoExc THEN ExitUncaught ELSE ExitOk

Traceback(x) == <<"Traceback (most recent call last):", x.type, x.text>>
Ignored(x) == <<"Exception ignored in: <stdout>", x.type, x.text>>

Init ==
    /\ mode \in {"buffered", "direct"}
    /\ faults \in [1..MaxFaults -> Outcomes(mode)]
    /\ flushFault \in FlushFaults(mode)
    /\ name \in [Invocations -> ModuleNames]
    /\ argv \in [Invocations -> ArgLists]
    /\ pc = [i \in Invocations |-> "load"]
    /\ caller = [i \in Invocations |-> "none"]
    /\ calls = [i \in Invocations |-> 0]
    /\ e = [i \in Invocations |-> NoExc]
    /\ raised = [i \in Invocations |-> NoExc]
    /\ buf = [i \in Invocations |-> <<>>]
    /\ out = [i \in Invocations |-> <<>>]
    /\ err = [i \in Invocations |-> <<>>]
    /\ status = [i \in Invocations |-> -1]
    /\ log = [i \in Invocations |-> <<>>]
    /\ touched = [i \in Invocations |-> {}]
    /\ modns = [i \in Invocations |-> {}]

\* lines 1-19: the module body binds the docstring and main
Load(i) ==
    /\ pc[i] = "load"
    /\ modns' = [modns EXCEPT ![i] = @ \cup {"__doc__", "main"}]
    /\ pc' = [pc EXCEPT ![i] = "guard"]
    /\ UNCHANGED <<env, caller, calls, e, raised, buf, out, err, status, log, touched>>

\* lines 21-24: main() is called when the module is the main program
Guard(i) ==
    /\ pc[i] = "guard"
    /\ IF GuardHolds(i)
       THEN /\ pc' = [pc EXCEPT ![i] = "try"]
            /\ caller' = [caller EXCEPT ![i] = "guard"]
            /\ calls' = [calls EXCEPT ![i] = @ + 1]
       ELSE /\ pc' = [pc EXCEPT ![i] = "imported"]
            /\ UNCHANGED <<caller, calls>>
    /\ UNCHANGED <<env, e, raised, buf, out, err, status, log, touched, modns>>

\* the importing program calls hello.main()
CallMain(i) ==
    /\ pc[i] = "imported"
    /\ calls[i] < MaxCalls
    /\ pc' = [pc EXCEPT ![i] = "try"]
    /\ caller' = [caller EXCEPT ![i] = "importer"]
    /\ calls' = [calls EXCEPT ![i] = @ + 1]
    /\ raised' = [raised EXCEPT ![i] = NoExc]
    /\ UNCHANGED <<env, e, buf, out, err, status, log, touched, modns>>

\* print(text) of step op with outcome o: the streams, the log, the frame
DoPrint(i, op, text, o) ==
    LET t == Emitted(text, o.written)
        toOut == PrintTarget(op) = "stdout"
    IN  /\ buf' = [buf EXCEPT ![i] = IF toOut /\ mode = "buffered" THEN @ \o t ELSE @]
        /\ out' = [out EXCEPT ![i] = IF toOut /\ mode = "direct" THEN @ \o t ELSE @]
        /\ err' = [err EXCEPT ![i] = IF toOut THEN @ ELSE @ \o t]
        /\ log' = [log EXCEPT ![i] =
                     Append(@, [call |-> calls[i], op |-> op, ok |-> o.exc = NoExc])]
        /\ touched' = [touched EXCEPT ![i] = @ \cup Effects(op)]

\* lines 12-14: try: print("Hello, World!")
PrintGreeting(i) ==
    /\ pc[i] = "try"
    /\ LET o == NextOutcome(i)
       IN  /\ DoPrint(i, "greeting", GreetingText(i), o)
           /\ e' = [e EXCEPT ![i] = o.exc]
           /\ pc' = [pc EXCEPT ![i] = AfterTry(o)]
    /\ UNCHANGED <<env, caller, calls, raised, status, modns>>

\* lines 15-19: except Exception as e: print(f"...{e}")
PrintDiagnostic(i) ==
    /\ pc[i] = "except"
    /\ LET o == NextOutcome(i)
       IN  /\ DoPrint(i, "diagnostic", DiagnosticText(e[i]), o)
           /\ e' = [e EXCEPT ![i] = o.exc]
           /\ pc' = [pc EXCEPT ![i] = AfterExcept(o)]
    /\ UNCHANGED <<env, caller, calls, raised, status, modns>>

\* main() returns None to its caller
Return(i) ==
    /\ pc[i] = "return"
    /\ pc' = [pc EXCEPT ![i] = IF caller[i] = "guard" THEN "exit" ELSE "imported"]
    /\ e' = [e EXCEPT ![i] = NoExc]
    /\ UNCHANGED <<env, caller, calls, raised, buf, out, err, status, log, touched, modns>>

\* the exception raised inside the handler leaves main()
Propagate(i) ==
    /\ pc[i] = "raise"
    /\ raised' = [raised EXCEPT ![i] = e[i]]
    /\ e' = [e EXCEPT ![i] = NoExc]
    /\ pc' = [pc EXCEPT ![i] = IF caller[i] = "guard" THEN "exit" ELSE "imported"]
    /\ UNCHANGED <<env, caller, calls, buf, out, err, status, log, touched, modns>>

\* line 24 onwards: the interpreter reports an uncaught exception, flushes
\* standard output and exits
Exit(i) ==
    /\ pc[i] = "exit"
    /\ LET flushFailed == buf[i] # <<>> /\ flushFault # NoExc
       IN  /\ out' = [out EXCEPT ![i] = IF flushFailed THEN @ ELSE @ \o buf[i]]
           /\ buf' = [buf EXCEPT ![i] = <<>>]
           /\ err' = [err EXCEPT ![i] =
                        @ \o (IF raised[i] # NoExc THEN Traceback(raised[i]) ELSE <<>>)
                          \o (IF flushFailed THEN Ignored(flushFault) ELSE <<>>)]
           /\ log' = [log EXCEPT ![i] =
                        IF buf[i] # <<>>
                        THEN Append(@, [call |-> 0, op |-> "flush", ok |-> ~flushFailed])
                        ELSE @]
           /\ status' = [status EXCEPT ![i] = ExitStatus(raised[i], flushFailed)]
    /\ pc' = [pc EXCEPT ![i] = "done"]
    /\ UNCHANGED <<env, caller, calls, e, raised, touched, modns>>

\* the steps of the program itself
Run(i) ==
    \/ Load(i)
    \/ Guard(i)
    \/ PrintGreeting(i)
    \/ PrintDiagnostic(i)
    \/ Return(i)
    \/ Propagate(i)
    \/ Exit(i)

Next == \E i \in Invocations : Run(i) \/ CallMain(i)

Spec == Init /\ [][Next]_vars

\* synchronous code: the interpreter runs every invocation to its end
FairSpec == Spec /\ \A i \in Invocations : WF_vars(Run(i))

\* ------------------------------------------------------------- properties
Direct(i) == name[i] = "__main__"
Done(i) == pc[i] = "done"
\* the print attempts of invocation i (the log without the final flush)
Prints(i) == SelectSeq(log[i], LAMBDA ev : ev.op # "flush")
AllWritesOk(i) == \A k \in DOMAIN log[i] : log[i][k].ok
GreetingFailed(i) == \E k \in DOMAIN log[i] : log[i][k].op = "greeting" /\ ~log[i][k].ok
Lines(s) == Cardinality({k \in DOMAIN s : s[k] = "\n"})
Holds(s, sub) ==
    \E k \in 1..(Len(s) + 1 - Len(sub)) : SubSeq(s, k, k + Len(sub) - 1) = sub

TypeOK ==
    /\ mode \in {"buffered", "direct"}
    /\ \A i \in Invocations :
        /\ pc[i] \in {"load", "guard", "imported", "try", "except", "return",
                      "raise", "exit", "done"}
        /\ calls[i] \in 0..MaxCalls
        /\ status[i] \in {-1, ExitOk, ExitUncaught, ExitFlushFailed}

\* C1: a direct invocation with no arguments whose writes all succeed ends with
\* standard output holding exactly `Hello, World!` and one line terminator, and
\* with exit status zero.
C1_HelloWorld ==
    \A i \in Invocations :
        (Direct(i) /\ argv[i] = <<>> /\ Done(i) /\ AllWritesOk(i))
            => (out[i] = <<"Hello, World!", "\n">> /\ status[i] = 0)

C1_Witness ==
    \E i \in Invocations :
        Direct(i) /\ argv[i] = <<>> /\ Done(i) /\ AllWritesOk(i) /\ Len(Prints(i)) = 1

\* C2: an imported module whose main() the importer has not called has produced
\* no output, and the module itself calls main() only when it is the main program.
C2_ImportIsSilent ==
    \A i \in Invocations :
        /\ caller[i] = "guard" => Direct(i)
        /\ (~Direct(i) /\ calls[i] = 0)
              => (out[i] = <<>> /\ buf[i] = <<>> /\ err[i] = <<>> /\ log[i] = <<>>)

C2_Witness ==
    \E i \in Invocations : ~Direct(i) /\ pc[i] = "imported" /\ calls[i] = 0

\* C3: a direct invocation whose greeting write failed ends with the diagnostic
\* line, carrying the text of the caught failure, on standard output, and with
\* exit status zero.
C3_DiagnosticAndExitZero ==
    \A i \in Invocations :
        (Direct(i) /\ Done(i) /\ GreetingFailed(i))
            => /\ Holds(out[i], <<DiagPrefix, faults[1].exc.text, "\n">>)
               /\ status[i] = 0

\* C4: two direct invocations on the same platform, whatever their command
\* lines, end with the same standard output and the same exit status.
C4_ArgumentsIgnored ==
    \A i, j \in Invocations :
        (Direct(i) /\ Direct(j) /\ Done(i) /\ Done(j))
            => (out[i] = out[j] /\ status[i] = status[j])

C4_Witness ==
    \E i, j \in Invocations :
        /\ Direct(i) /\ Direct(j) /\ Done(i) /\ Done(j)
        /\ argv[i] = <<>> /\ argv[j] # <<>>

\* C5: the exit status is zero when every write succeeded; an invocation that
\* ends with a non-zero status has a failed write to standard output.
C5_NonZeroOnlyOnFailedWrite ==
    \A i \in Invocations :
        Done(i) => /\ status[i] \in {0, 1, 120}
                   /\ AllWritesOk(i) => status[i] = 0
                   /\ status[i] # 0 =>
                        \E k \in DOMAIN log[i] : ~log[i][k].ok

C5_Witness ==
    \E i \in Invocations :
        Done(i) /\ status[i] # 0 /\ \E k \in DOMAIN log[i] : ~log[i][k].ok

\* C6: while every write succeeds nothing is on standard error, and neither the
\* greeting nor the diagnostic message is ever written to standard error.
C6_NothingOnStderr ==
    \A i \in Invocations :
        /\ AllWritesOk(i) => err[i] = <<>>
        /\ \A k \in DOMAIN err[i] : err[i][k] \notin {"Hello, World!", DiagPrefix}

C6_Witness ==
    \E i, j \in Invocations :
        /\ Direct(i) /\ Done(i) /\ AllWritesOk(i) /\ log[i] # <<>>
        /\ \E k \in DOMAIN log[j] : log[j][k].op = "diagnostic" /\ log[j][k].ok

\* C7: no failure of a write leaves main(): every one is turned into the
\* diagnostic, and no invocation ends abnormally.
C7_NoFailureLeavesMain ==
    \A i \in Invocations :
        /\ pc[i] # "raise"
        /\ raised[i] = NoExc
        /\ Done(i) => status[i] # 1

\* C8: every direct invocation reaches its end, having entered main() exactly
\* once, with at most two print attempts and no step of main() tried twice.
C8_Terminates ==
    /\ \A i \in Invocations : Direct(i) ~> Done(i)
    /\ [](\A i \in Invocations :
            /\ Direct(i) => calls[i] <= 1 /\ Len(Prints(i)) <= 2
            /\ (Direct(i) /\ Done(i)) => calls[i] = 1
            /\ \A k, l \in DOMAIN log[i] :
                 (k < l /\ log[i][k].call = log[i][l].call)
                    => log[i][k].op # log[i][l].op)

C8_Witness ==
    \E i \in Invocations : Direct(i) /\ Done(i) /\ Len(Prints(i)) = 2

C10_DiagnosticOnlyAfterFailure ==
    \A i \in Invocations :
        /\ \A k \in DOMAIN log[i] :
              log[i][k].op = "diagnostic"
                 => /\ k > 1
                    /\ log[i][k - 1].op = "greeting"
                    /\ ~log[i][k - 1].ok
                    /\ log[i][k - 1].call = log[i][k].call
        /\ pc[i] = "except"
              => /\ e[i] # NoExc
                 /\ log[i] # <<>>
                 /\ log[i][Len(log[i])] =
                      [call |-> calls[i], op |-> "greeting", ok |-> FALSE]
        /\ (\E k \in DOMAIN (out[i] \o buf[i]) : (out[i] \o buf[i])[k] = DiagPrefix)
              => GreetingFailed(i)

C10_Witness ==
    \E i \in Invocations :
        \E k \in DOMAIN log[i] : log[i][k].op = "diagnostic" /\ log[i][k].ok

====
